---- MODULE Spec2Model ----
(***************************************************************************)
(* IPv4 network de-duplication and aggregation                             *)
(* (src/tools/ipv4_deduplication_aggregation.go).                          *)
(*                                                                         *)
(* A network is a record [addr, prefix]: addr is the base address as an    *)
(* unsigned W-bit integer, prefix the number of network bits.  The program *)
(* works on 32-bit addresses; the model keeps the arithmetic and narrows   *)
(* the width to W bits.                                                    *)
(***************************************************************************)
EXTENDS Integers, Sequences, FiniteSets

\* address width in bits (32 in the program)
W == 3
\* longest list of networks handed to aggregateNetworks
MaxLen == 4
\* longest sequence of raw tokens (split string, or lines of the file)
MaxTokens == 3

VARIABLES
    str,         \* cfg.str, as the tokens strings.Split(str, " ") yields
    path,        \* cfg.filePath
    fileLines,   \* the lines of the file at cfg.filePath
    stringNets,  \* main: stringNets
    err,         \* the error main reports ("none" when there is none)
    errToken,    \* the token the error names
    nets,        \* main: nets, the argument of aggregateNetworks
    sourceNets,  \* aggregateNetworks: sourceNets
    netsNumber,  \* aggregateNetworks: netsNumber
    passes,      \* number of iterations of the merge loop run so far
    result,      \* main: result
    output,      \* the lines printResult wrote
    pc           \* position of main

vars == <<str, path, fileLines, stringNets, err, errToken, nets, sourceNets,
          netsNumber, passes, result, output, pc>>

----------------------------------------------------------------------------
(* Primitives of iplib, on W-bit addresses *)

Addrs == 0 .. (2^W - 1)

\* address & mask(prefix): the host bits cleared
MaskAddr(addr, prefix) == addr - (addr % (2^(W - prefix)))

Nets == {n \in [addr : Addrs, prefix : 0..W] : MaskAddr(n.addr, n.prefix) = n.addr}

\* the value Supernet leaves behind for a /0 network (nil address, nil mask)
NoNet == [addr |-> -1, prefix |-> -1]

\* iplib.Net.ContainsNet
ContainsNet(superNet, net) ==
    /\ superNet.prefix <= net.prefix
    /\ MaskAddr(net.addr, superNet.prefix) = superNet.addr

\* iplib.CompareNets: by address, then by prefix length
CompareNets(a, b) ==
    IF a.addr < b.addr THEN -1
    ELSE IF a.addr > b.addr THEN 1
    ELSE IF a.prefix < b.prefix THEN -1
    ELSE IF a.prefix > b.prefix THEN 1
    ELSE 0

\* iplib.Net.Supernet(0): one bit less specific
Supernet(net) ==
    IF net.prefix <= 0 THEN NoNet
    ELSE [addr |-> MaskAddr(net.addr, net.prefix - 1), prefix |-> net.prefix - 1]

----------------------------------------------------------------------------
(* Tokens *)

\* a whitespace-only token
Blank == [addr |-> -1, prefix |-> -1]
NoToken == [addr |-> -2, prefix |-> -2]

\* the literals a.b.c.d/n the model feeds in: host bits set or not, siblings,
\* a prefix length out of range, an address out of range
TokenPool ==
    {[addr |-> 0, prefix |-> W], [addr |-> 1, prefix |-> W],
     [addr |-> 2, prefix |-> W], [addr |-> 0, prefix |-> W - 1],
     [addr |-> 1, prefix |-> W - 1], [addr |-> 2, prefix |-> W - 1],
     [addr |-> 0, prefix |-> W + 1], [addr |-> 2^W, prefix |-> W], Blank}

TokenSeqs == UNION {[1..n -> TokenPool] : n \in 0..MaxTokens}

\* iplib.ParseCIDR: e = nil
ValidToken(s) == s.addr \in Addrs /\ s.prefix \in 0..W

\* iplib.ParseCIDR: the network, host bits masked off
ParseCIDR(s) == [addr |-> MaskAddr(s.addr, s.prefix), prefix |-> s.prefix]

\* len(strings.TrimSpace(s)) == 0
IsBlank(s) == s = Blank

RECURSIVE filter(_)
filter(s) ==
    IF s = <<>> THEN <<>>
    ELSE IF ~IsBlank(Head(s)) THEN <<Head(s)>> \o filter(Tail(s))
    ELSE filter(Tail(s))

Range(s) == {s[i] : i \in 1..Len(s)}

RECURSIVE Orders(_)
Orders(S) ==
    IF S = {} THEN {<<>>}
    ELSE UNION {{<<x>> \o s : s \in Orders(S \ {x})} : x \in S}

\* deduplicate: the keys of the set, in the order the map iteration gives
deduplicate(list) == IF Len(list) = 0 THEN {list} ELSE Orders(Range(list))

----------------------------------------------------------------------------
(* Input normalizer *)

\* len(strings.TrimSpace(str)) == 0, on the split string
EmptyStr(s) == \A i \in 1..Len(s) : IsBlank(s[i])

\* len(strings.TrimSpace(path)) == 0
EmptyPath(p) == p = ""

Paths == {"", "nets.txt", "missing.txt"}

\* os.Open succeeds
CanOpen(p) == p = "nets.txt"

\* getNetsFromInput: the outcomes [list, err] it can return (one per order in
\* which deduplicate hands the tokens on)
getNetsFromInput(s, p, lines) ==
    IF EmptyStr(s) /\ EmptyPath(p)
    THEN {[list |-> <<>>, err |-> "NoInput"]}
    ELSE IF ~EmptyStr(s) /\ ~EmptyPath(p)
    THEN {[list |-> <<>>, err |-> "BothInputs"]}
    ELSE IF EmptyStr(s) /\ ~CanOpen(p)
    THEN {[list |-> <<>>, err |-> "CannotOpen"]}
    ELSE LET read == IF ~EmptyStr(s) THEN s ELSE lines
         IN  {[list |-> l, err |-> "none"] : l \in deduplicate(filter(read))}

\* sort.Sort(iplib.ByNet(list)): x put in its place in a sorted list
RECURSIVE InsertNet(_, _)
InsertNet(sorted, x) ==
    IF sorted = <<>> THEN <<x>>
    ELSE IF CompareNets(x, Head(sorted)) < 0 THEN <<x>> \o sorted
    ELSE <<Head(sorted)>> \o InsertNet(Tail(sorted), x)

RECURSIVE SortFrom(_, _)
SortFrom(sorted, rest) ==
    IF rest = <<>> THEN sorted
    ELSE SortFrom(InsertNet(sorted, Head(rest)), Tail(rest))

NoSort(list) == list

SortNets(list) == SortFrom(<<>>, list)

\* the loop of getNetsFromString: parse each token, stop at the first bad one
RECURSIVE ParseLoop(_, _)
ParseLoop(strs, list) ==
    IF strs = <<>>
    THEN [list |-> SortNets(list), err |-> "none", tok |-> NoToken]
    ELSE IF ~ValidToken(Head(strs))
    THEN [list |-> list, err |-> "BadNet", tok |-> Head(strs)]
    ELSE ParseLoop(Tail(strs), Append(list, ParseCIDR(Head(strs))))

RECURSIVE ParseLoopSkip(_, _)
ParseLoopSkip(strs, list) ==
    IF strs = <<>>
    THEN [list |-> SortNets(list), err |-> "none", tok |-> NoToken]
    ELSE IF ~ValidToken(Head(strs))
    THEN ParseLoopSkip(Tail(strs), list)
    ELSE ParseLoopSkip(Tail(strs), Append(list, ParseCIDR(Head(strs))))

getNetsFromStringSkip(strs) == ParseLoopSkip(strs, <<>>)

getNetsFromString(strs) == ParseLoop(strs, <<>>)

----------------------------------------------------------------------------
(* Absorber *)

largeNetsKeepAll(absorbed, superNet, net) == <<Append(absorbed, net), net>>

\* returns <<absorbed, superNet>>
largeNetsAbsorbSmall(absorbed, superNet, net) ==
    IF ~ContainsNet(superNet, net)
    THEN <<Append(absorbed, net), net>>
    ELSE <<absorbed, superNet>>

\* for _, net := range sourceNets[1:]
RECURSIVE AbsorbLoop(_, _, _)
AbsorbLoop(absorbed, superNet, rest) ==
    IF rest = <<>> THEN absorbed
    ELSE LET r == largeNetsAbsorbSmall(absorbed, superNet, Head(rest))
         IN  AbsorbLoop(r[1], r[2], Tail(rest))

\* the absorb step of aggregateNetworks
Absorbed(sources) == AbsorbLoop(<<sources[1]>>, sources[1], Tail(sources))

----------------------------------------------------------------------------
(* Merger *)

\* the last of sources differs from every given net
lastIsNotGiven(sources, given) ==
    LET last == sources[Len(sources)]
    IN  \A i \in 1..Len(given) : CompareNets(last, given[i]) # 0

DropLast(s) == SubSeq(s, 1, Len(s) - 1)

\* the merge test without the comparison of the supernets
smallMergedAnyPair(aggregated, net1, net2) ==
    IF net1.prefix = net2.prefix
    THEN <<Append(aggregated, Supernet(net1)), net2>>
    ELSE LET kept ==
                IF Len(aggregated) = 0 THEN Append(aggregated, net1)
                ELSE IF lastIsNotGiven(aggregated, <<net1, Supernet(net1)>>)
                THEN Append(aggregated, net1)
                ELSE aggregated
         IN  <<Append(kept, net2), net2>>

\* the merge without the removal of the stale last entry
smallMergedKeepStale(aggregated, net1, net2) ==
    IF net1.prefix = net2.prefix
       /\ CompareNets(Supernet(net1), Supernet(net2)) = 0
    THEN <<Append(aggregated, Supernet(net1)), net2>>
    ELSE LET kept ==
                IF Len(aggregated) = 0 THEN Append(aggregated, net1)
                ELSE IF lastIsNotGiven(aggregated, <<net1, Supernet(net1)>>)
                THEN Append(aggregated, net1)
                ELSE aggregated
         IN  <<Append(kept, net2), net2>>

\* returns <<aggregated, net1 of the next comparison>>
smallMergedToLarge(aggregated, net1, net2) ==
    LET net1SuperNet == Supernet(net1)
        net2SuperNet == Supernet(net2)
    IN  IF net1.prefix = net2.prefix
           /\ CompareNets(net1SuperNet, net2SuperNet) = 0
        THEN LET cut ==
                    IF Len(aggregated) # 0 /\ ~lastIsNotGiven(aggregated, <<net1>>)
                    THEN DropLast(aggregated)
                    ELSE aggregated
             IN  <<Append(cut, net1SuperNet), net2>>
        ELSE LET kept ==
                    IF Len(aggregated) = 0 THEN Append(aggregated, net1)
                    ELSE IF lastIsNotGiven(aggregated, <<net1, net1SuperNet>>)
                    THEN Append(aggregated, net1)
                    ELSE aggregated
             IN  <<Append(kept, net2), net2>>

\* for _, net2 := range sourceNets[1:]
RECURSIVE MergeLoop(_, _, _)
MergeLoop(mergeList, net1, rest) ==
    IF rest = <<>> THEN mergeList
    ELSE LET r == smallMergedToLarge(mergeList, net1, Head(rest))
         IN  MergeLoop(r[1], r[2], Tail(rest))

\* one iteration of the outer loop: the list it leaves in sourceNets
MergePass(sources) == MergeLoop(<<>>, sources[1], Tail(sources))

BreaksAfterOnePass(length, number) == TRUE

BreaksOnlyAtOne(length, number) == length = 1

\* len(sourceNets) == netsNumber || len(sourceNets) == 1
LoopBreaks(length, number) == length = number \/ length = 1

RECURSIVE MergeUntilBreak(_, _)
MergeUntilBreak(sources, number) ==
    LET mergeList == MergePass(sources)
    IN  IF LoopBreaks(Len(mergeList), number) THEN mergeList
        ELSE MergeUntilBreak(mergeList, Len(mergeList))

\* aggregateNetworks as a function of its argument
aggregateNetworks(list) ==
    IF Len(list) < 2 THEN list
    ELSE LET absorbed == Absorbed(list)
         IN  IF Len(absorbed) = 1 THEN absorbed
             ELSE MergeUntilBreak(absorbed, Len(list))

\* printResult: one line <address>/<prefix> per network
printResult(list) == [i \in 1..Len(list) |-> <<list[i].addr, list[i].prefix>>]

----------------------------------------------------------------------------
(* main *)

Init ==
    /\ str \in TokenSeqs
    /\ path \in Paths
    \* the file is read only when the string is blank and the file opens
    /\ fileLines \in IF EmptyStr(str) /\ CanOpen(path) THEN TokenSeqs ELSE {<<>>}
    /\ stringNets = <<>>
    /\ err = "none"
    /\ errToken = NoToken
    /\ nets = <<>>
    /\ sourceNets = <<>>
    /\ netsNumber = 0
    /\ passes = 0
    /\ result = <<>>
    /\ output = <<>>
    /\ pc = "input"

\* main: stringNets, err := getNetsFromInput(cfg.str, cfg.filePath)
ReadInput ==
    /\ pc = "input"
    /\ \E r \in getNetsFromInput(str, path, fileLines) :
          /\ stringNets' = r.list
          /\ err' = r.err
          /\ pc' = IF r.err = "none" THEN "parse" ELSE "failed"
    /\ UNCHANGED <<str, path, fileLines, errToken, nets, sourceNets, netsNumber,
                   passes, result, output>>

\* main: nets, err := getNetsFromString(stringNets)
ParseTokens ==
    /\ pc = "parse"
    /\ LET r == getNetsFromString(stringNets)
       IN  /\ nets' = r.list
           /\ err' = r.err
           /\ errToken' = r.tok
           /\ pc' = IF r.err = "none" THEN "aggregate" ELSE "failed"
    /\ UNCHANGED <<str, path, fileLines, stringNets, sourceNets, netsNumber,
                   passes, result, output>>

\* aggregateNetworks: fewer than two networks are returned as they are
AggregateShort ==
    /\ pc = "aggregate"
    /\ Len(nets) < 2
    /\ result' = nets
    /\ pc' = "print"
    /\ UNCHANGED <<str, path, fileLines, stringNets, err, errToken, nets,
                   sourceNets, netsNumber, passes, output>>

\* aggregateNetworks: the absorb pass, and the return when one network is left
Absorb ==
    /\ pc = "aggregate"
    /\ Len(nets) >= 2
    /\ netsNumber' = Len(nets)
    /\ LET absorbed == Absorbed(nets)
       IN  IF Len(absorbed) = 1
           THEN /\ sourceNets' = nets
                /\ result' = absorbed
                /\ pc' = "print"
           ELSE /\ sourceNets' = absorbed
                /\ result' = result
                /\ pc' = "merge"
    /\ UNCHANGED <<str, path, fileLines, stringNets, err, errToken, nets,
                   passes, output>>

\* aggregateNetworks: one iteration of the merge loop, and the return after
\* the iteration that breaks
MergePassStep ==
    /\ pc = "merge"
    /\ passes' = passes + 1
    /\ LET mergeList == MergePass(sourceNets)
       IN  /\ sourceNets' = mergeList
           /\ IF LoopBreaks(Len(mergeList), netsNumber)
              THEN /\ netsNumber' = netsNumber
                   /\ result' = mergeList
                   /\ pc' = "print"
              ELSE /\ netsNumber' = Len(mergeList)
                   /\ result' = result
                   /\ pc' = "merge"
    /\ UNCHANGED <<str, path, fileLines, stringNets, err, errToken, nets,
                   output>>

\* main: printResult(result)
WriteResult ==
    /\ pc = "print"
    /\ output' = printResult(result)
    /\ pc' = "done"
    /\ UNCHANGED <<str, path, fileLines, stringNets, err, errToken, nets,
                   sourceNets, netsNumber, passes, result>>

Next ==
    \/ ReadInput
    \/ ParseTokens
    \/ AggregateShort
    \/ Absorb
    \/ MergePassStep
    \/ WriteResult

Spec == Init /\ [][Next]_vars

----------------------------------------------------------------------------
(* aggregateNetworks on every sorted list of at most MaxLen networks *)

\* the caller holds no network yet
InitAgg ==
    /\ str = <<>>
    /\ path = ""
    /\ fileLines = <<>>
    /\ stringNets = <<>>
    /\ err = "none"
    /\ errToken = NoToken
    /\ nets = <<>>
    /\ sourceNets = <<>>
    /\ netsNumber = 0
    /\ passes = 0
    /\ result = <<>>
    /\ output = <<>>
    /\ pc = "caller"

\* the caller adds one more network to its sorted list (address ascending,
\* then prefix ascending; equal networks allowed)
SupplyNet ==
    /\ pc = "caller"
    /\ Len(nets) < MaxLen
    /\ \E x \in Nets :
          /\ IF nets = <<>> THEN TRUE ELSE CompareNets(nets[Len(nets)], x) <= 0
          /\ nets' = Append(nets, x)
    /\ UNCHANGED <<str, path, fileLines, stringNets, err, errToken, sourceNets,
                   netsNumber, passes, result, output, pc>>

\* the caller hands its list to aggregateNetworks
CallAggregate ==
    /\ pc = "caller"
    /\ pc' = "aggregate"
    /\ UNCHANGED <<str, path, fileLines, stringNets, err, errToken, nets,
                   sourceNets, netsNumber, passes, result, output>>

NextAgg ==
    \/ SupplyNet
    \/ CallAggregate
    \/ AggregateShort
    \/ Absorb
    \/ MergePassStep
    \/ WriteResult

SpecAgg == InitAgg /\ [][NextAgg]_vars

----------------------------------------------------------------------------
(* Properties of aggregateNetworks *)

\* aggregateNetworks has returned
Returned == pc \in {"print", "done"}

\* the addresses of a network: the 2^(W - prefix) addresses from its base
Cover(net) == net.addr .. (net.addr + 2^(W - net.prefix) - 1)

\* the addresses a list of networks covers
Covered(list) == UNION {Cover(list[i]) : i \in 1..Len(list)}

HasDuplicate(list) == \E i \in 1..(Len(list) - 1) : list[i] = list[i + 1]

\* C1: when aggregateNetworks has returned on a non-empty sorted list, the
\* addresses the result covers are exactly the addresses the input covers.
C1_CoverageKept ==
    (Returned /\ Len(nets) >= 1) => Covered(result) = Covered(nets)

\* a run with an absorption and a merge that returns two networks or more
C1_Witness ==
    /\ pc = "done"
    /\ Len(nets) >= 2
    /\ Len(Absorbed(nets)) < Len(nets)
    /\ Len(result) < Len(Absorbed(nets))
    /\ Len(result) >= 2
    /\ Covered(result) = Covered(nets)

\* the least number of networks whose union is exactly the address set S,
\* counted inside the block addr/prefix: a block that lies in S counts once,
\* a block that misses S counts nothing, any other block is split in two
RECURSIVE MinBlocks(_, _, _)
MinBlocks(addr, prefix, S) ==
    LET block == Cover([addr |-> addr, prefix |-> prefix])
    IN  IF block \subseteq S THEN 1
        ELSE IF block \cap S = {} THEN 0
        ELSE MinBlocks(addr, prefix + 1, S)
             + MinBlocks(addr + 2^(W - prefix - 1), prefix + 1, S)

SiblingPair(a, b) ==
    /\ a # b
    /\ a.prefix = b.prefix
    /\ a.prefix > 0
    /\ Supernet(a) = Supernet(b)

\* C2: the returned list is the smallest set of networks that covers its
\* addresses, and holds no pair of siblings (equal prefix length, same
\* one-bit-shorter supernet).
C2_SmallestSet ==
    Returned =>
        /\ Len(result) = MinBlocks(0, 0, Covered(nets))
        /\ \A i, j \in 1..Len(result) : ~SiblingPair(result[i], result[j])

\* a run whose first pass leaves a sibling pair that a later pass merges
C2_Witness ==
    /\ pc = "done"
    /\ Len(nets) >= 2
    /\ Len(Absorbed(nets)) >= 2
    /\ Len(MergePass(Absorbed(nets))) < Len(Absorbed(nets))
    /\ Len(result) < Len(MergePass(Absorbed(nets)))
    /\ Len(result) = MinBlocks(0, 0, Covered(nets))

ContainmentFree(list) ==
    \A i, j \in 1..Len(list) : i # j => ~ContainsNet(list[i], list[j])

\* C3: no network of the result contains another one; this holds of the
\* list the absorb pass leaves and of the list every merge pass leaves,
\* also when the input holds the same network more than once.
C3_NoContainment ==
    /\ pc = "merge" => ContainmentFree(sourceNets)
    /\ Returned => ContainmentFree(result)

\* a run on an input with a repeated network and a contained network that
\* went through the merge loop and returns more than one network
C3_Witness ==
    /\ pc = "done"
    /\ HasDuplicate(nets)
    /\ \E i, j \in 1..Len(nets) : nets[i] # nets[j] /\ ContainsNet(nets[i], nets[j])
    /\ passes >= 1
    /\ Len(result) >= 2
    /\ ContainmentFree(result)

\* C5: aggregating the returned list again (sort, absorb, merge) returns
\* the same list, in the same order.
C5_Idempotent ==
    Returned => aggregateNetworks(SortNets(result)) = result

\* a run that changed its input and returned more than one network
C5_Witness ==
    /\ pc = "done"
    /\ Len(nets) >= 2
    /\ Len(result) >= 2
    /\ Len(result) < Len(Absorbed(nets))
    /\ aggregateNetworks(SortNets(result)) = result

StrictlyAscending(list) ==
    \A i \in 1..(Len(list) - 1) : CompareNets(list[i], list[i + 1]) < 0

\* C8: the list handed to printResult is strictly ascending (address, then
\* prefix length), and so is the list every merge pass leaves; printResult
\* writes it in that order.
C8_StrictlyAscending ==
    /\ pc = "merge" => StrictlyAscending(sourceNets)
    /\ Returned => StrictlyAscending(result)
    /\ pc = "done" => output = [i \in 1..Len(result) |->
                                 <<result[i].addr, result[i].prefix>>]

\* a pass that had written net1 (the second input network) and removed it
\* again when net1 merged with the third
C8_Witness ==
    /\ pc = "done"
    /\ Len(nets) = 3
    /\ StrictlyAscending(nets)
    /\ passes >= 1
    /\ Len(result) = 2
    /\ result[1] = nets[1]
    /\ result[2] = Supernet(nets[2])
    /\ result[2] = Supernet(nets[3])

\* C9: the merge loop runs at most W passes: the pass counter never exceeds
\* W, and after W passes the loop has stopped.
C9_AtMostWPasses ==
    /\ passes <= W
    /\ pc = "merge" => passes < W

\* a run of W passes
C9_Witness == pc = "done" /\ passes = W

\* C10: a merge pass after which the loop goes on has left a list shorter
\* than the list it took, and longer than one.
C10_StopsAtFirstIdlePass ==
    [][(pc = "merge" /\ pc' = "merge") =>
           (Len(sourceNets') < Len(sourceNets) /\ Len(sourceNets') # 1)]_vars

----------------------------------------------------------------------------
(* Properties of main *)

\* the tokens main reads: the split string when it is not blank, else the
\* lines of the file
InputTokens == IF ~EmptyStr(str) THEN str ELSE fileLines

\* one fixed order of a set of tokens
RECURSIVE FixedOrder(_)
FixedOrder(S) ==
    IF S = {} THEN <<>>
    ELSE LET x == CHOOSE y \in S : TRUE
         IN  <<x>> \o FixedOrder(S \ {x})

\* C4: when main has aggregated valid tokens, its result is the one that
\* parsing, sorting and aggregating gives on one fixed order of the set of
\* non-blank tokens it read: the runs on the permutations of the same
\* tokens, and on every order in which deduplicate hands them on, share
\* that set, so they all end in the same result.
C4_OrderIndependent ==
    (Returned /\ err = "none") =>
        result = aggregateNetworks(
                    getNetsFromString(
                        FixedOrder(Range(filter(InputTokens)))).list)

\* a run on three different tokens, two of them the same network, that
\* deduplicate handed on in an order that is neither the order they came
\* in nor the fixed one, and that returns a merged network
C4_Witness ==
    /\ pc = "done"
    /\ err = "none"
    /\ Len(stringNets) = 3
    /\ stringNets # FixedOrder(Range(stringNets))
    /\ InputTokens # stringNets
    /\ HasDuplicate(nets)
    /\ Len(result) = 1
    /\ result[1] \notin Range(nets)

\* C6: when no token is left after the blank ones are filtered out, main
\* ends in an error before it parses, and produces no result.
C6_EmptyTokenSetRejected ==
    (pc # "input" /\ stringNets = <<>>) =>
        (pc = "failed" /\ err # "none" /\ output = <<>>)

\* C7: when a token handed to getNetsFromString is not a valid CIDR, main
\* ends in the error that names a token that is not valid, aggregateNetworks
\* is not run and nothing is written.
C7_InvalidTokenAborts ==
    (pc \notin {"input", "parse"} /\ \E i \in 1..Len(stringNets) :
                                         ~ValidToken(stringNets[i])) =>
        /\ pc = "failed"
        /\ err = "BadNet"
        /\ errToken \in Range(stringNets)
        /\ ~ValidToken(errToken)
        /\ passes = 0
        /\ result = <<>>
        /\ output = <<>>

\* a run that fails on a bad token that stands after two valid ones
C7_Witness ==
    /\ pc = "failed"
    /\ err = "BadNet"
    /\ Len(stringNets) = 3
    /\ ValidToken(stringNets[1])
    /\ ValidToken(stringNets[2])
    /\ errToken = stringNets[3]

====
